---- MODULE Spec2Model ----
(***************************************************************************)
(* Model of the market-data cache/merge layer (syncData over localforage   *)
(* and the Eastmoney kline source), src/unnamed/part_002.                  *)
(*                                                                         *)
(* A bar is represented by its date.  Dates are the naturals 1..MaxDate:   *)
(* the code compares 'YYYY-MM-DD' strings with >, which on that format is  *)
(* the chronological order, so the order of the naturals stands for it.    *)
(* None (0) stands for `undefined` (no start date / empty cache).          *)
(***************************************************************************)
EXTENDS Integers, Sequences, FiniteSets, TLC

\* ------------------------------------------------------------------ bounds
MaxDate == 3
NumCalls == 2
NumLoads == 2
NumNames == 2

None == 0

InitialCash == 100000
initialCapital == 100000
Dates == 1..MaxDate
Calls == 1..NumCalls
Keys == {"volume_data_v2", "bond_data_v2"}
Loads == 1..NumLoads
Names == 1..NumNames

VARIABLES
    store,            \* localforage: key -> persisted bar sequence (<<>> = absent)
    srcLen,           \* the remote history is the bars dated 1..srcLen
    sourceAscending,  \* whether the remote keeps its contract (ascending replies)
    keysInUse,        \* the keys this run's syncData calls are made on
    pc,               \* per call: where the async function syncData stands
    key,              \* per call: the `key` argument
    cached,           \* per call: `cached`   (line 45)
    newData,          \* per call: `newData`  (line 54)
    finalData,        \* per call: `finalData` (lines 59-71)
    result,           \* per call: the value the promise resolved with
    writes,           \* per call: values it stored with setItem, in order
    fetches,          \* per call: log of its fetchFn invocations, in order
    cacheFailed,      \* per call: a getItem/setItem of the call rejected
    before            \* per call: the calls that had finished when it was invoked

syncVars == <<store, srcLen, sourceAscending, keysInUse, pc, key, cached,
              newData, finalData, result, writes, fetches, cacheFailed, before>>

\* jsonp and App.loadData (src/App.tsx), a record with the fields
\*   jState       per request: state of the promise jsonp returned
\*   scriptState  per request: state of its <script> element
\*   jName        per request: its callbackName
\*   window       callbackName -> request whose closure is registered
\*   lState       per load: where App's loadData stands
\*   isLoading    App state isLoading
\*   appData      App state data: the load whose result was set last
VARIABLE net

netVars == <<net>>

\* calculateMA and calculateHDY (src/App.tsx), a record with the fields
\*   data  the bars handed to the indicator function
\*   call  the call made: function, dayCount, field
\*   out   the array it returned
VARIABLE ind

indVars == <<ind>>

\* runStrategy (src/App.tsx), a record with the parameter and the locals
\*   data, ma10, ma100, startIndex, i, cash, holdings, trades, capitalCurve,
\*   benchmarkCurve, and
\*   pc   where the call stands
\*   ret  <<>> until it returns, then <<the BacktestResult>>
VARIABLE strat

stratVars == <<strat>>

\* fetchVolumeData (src/unnamed/part_002): syncData on the volume key with
\* bars that carry their volume, a record with the fields
\*   srcLen     both markets have published the lines dated 1..srcLen
\*   store      the bars persisted under 'volume_data_v2'
\*   pc         where the call in progress stands
\*   calls      the calls made so far
\*   cached, finalData   the locals of syncData
\*   result     the value the last call resolved with
VARIABLE vol

volVars == <<vol>>

vars == <<syncVars, netVars, indVars, stratVars, volVars>>

\* what the actions of syncData leave alone
nonSyncVars == <<netVars, indVars, stratVars, volVars>>

\* what the indicator calls leave alone
nonIndVars == <<syncVars, netVars, stratVars, volVars>>

\* what the steps of runStrategy leave alone
nonStratVars == <<syncVars, netVars, indVars, volVars>>

\* what the actions of jsonp/loadData leave alone
nonNetVars == <<syncVars, indVars, stratVars, volVars>>

\* what the steps of fetchVolumeData leave alone
nonVolVars == <<syncVars, netVars, indVars, stratVars>>

\* ----------------------------------------------------------------- helpers
Range(a, b) == [i \in 1..(b - a + 1) |-> a + i - 1]

IsPrefix(s, t) == Len(s) <= Len(t) /\ \A i \in 1..Len(s) : s[i] = t[i]

StrictlyAscending(s) == \A i \in 1..(Len(s) - 1) : s[i] < s[i + 1]

NoDuplicateDate(s) == \A i, j \in 1..Len(s) : i # j => s[i] # s[j]

Finished(c) == pc[c] \in {"done", "rejected", "abandoned"}

InFlight(c) == pc[c] \in {"getItem", "fetch", "setItem", "fallback"}

\* ------------------------------------------------------------ the remote
\* Replies that break the interface contract of the source (a duplicate date,
\* a descending pair); only sent when sourceAscending is FALSE.
BadReplies == {<<1, 1>>, <<2, 1>>}

\* What the remote may answer to a request with beg = start: the history from
\* some date at or before `start` (inclusive boundary), the whole history when
\* no start date is given.
SourceReplies(start) ==
    LET from == IF start = None THEN {1} ELSE 1..start
        good == {Range(s, srcLen) : s \in from}
    IN  IF sourceAscending THEN good ELSE good \cup BadReplies

\* jsonp(url) settles with the klines of the reply or rejects (script.onerror).
JsonpOutcomes(start) ==
    {[ok |-> TRUE, klines |-> r] : r \in SourceReplies(start)}
        \cup {[ok |-> FALSE, klines |-> <<>>]}

\* fetchRawKlines without its try/catch: a transport failure is rethrown.
FetchRawKlinesNoCatch(o) ==
    IF o.ok THEN [thrown |-> FALSE, value |-> o.klines]
            ELSE [thrown |-> TRUE, value |-> <<>>]

\* fetchRawKlines: the klines of the reply, [] when jsonp rejected.  Every
\* fetchFn of the repository awaits it and maps the lines to bars in order,
\* so what it yields is what fetchFn(startDate) settles with.
FetchRawKlines(o) ==
    IF o.ok THEN [thrown |-> FALSE, value |-> o.klines]
            ELSE [thrown |-> FALSE, value |-> <<>>]

\* The log entry of one fetchFn invocation.
FetchLog(start, o, r) ==
    [start |-> start, at |-> srcLen, ok |-> o.ok, thrown |-> r.thrown,
     ret |-> r.value]

\* --------------------------------------------------------------- syncData
\* lines 48-51
LastDate(c) == IF Len(c) > 0 THEN c[Len(c)] ELSE None

FreshDataInclusive(nd, lastDate) == SelectSeq(nd, LAMBDA d : d >= lastDate)

FreshDataUnfiltered(nd, lastDate) == nd

\* line 62: newData.filter(d => d.date > lastDate)
FreshData(nd, lastDate) == SelectSeq(nd, LAMBDA d : d > lastDate)

ShouldPersistAlways(fresh) == TRUE

\* line 63: freshData.length > 0
ShouldPersist(fresh) == Len(fresh) > 0

\* The merge without the setItem of the initial-fetch branch.
MergeInitialNotPersisted(cs, nd) ==
    LET lastDate == LastDate(cs)
        fresh == FreshData(nd, lastDate)
    IN  IF Len(nd) = 0 THEN [final |-> cs, persist |-> FALSE]
        ELSE IF lastDate # None
        THEN IF ShouldPersist(fresh)
             THEN [final |-> cs \o fresh, persist |-> TRUE]
             ELSE [final |-> cs, persist |-> FALSE]
        ELSE [final |-> nd, persist |-> FALSE]

\* lines 57-72: the merge; `persist` says whether setItem is called with it.
Merge(cs, nd) ==
    LET lastDate == LastDate(cs)
        fresh == FreshData(nd, lastDate)
    IN  IF Len(nd) = 0 THEN [final |-> cs, persist |-> FALSE]
        ELSE IF lastDate # None
        THEN IF ShouldPersist(fresh)
             THEN [final |-> cs \o fresh, persist |-> TRUE]
             ELSE [final |-> cs, persist |-> FALSE]
        ELSE [final |-> nd, persist |-> TRUE]

FallbackStartLastDate(c) == LastDate(cached[c])

\* line 79: the argument of the fetchFn call in the catch block, undefined
FallbackStart(c) == None

\* No load has been started, no jsonp request issued.
NetIdle ==
    net = [jState      |-> [r \in Loads |-> "idle"],
           scriptState |-> [r \in Loads |-> "none"],
           jName       |-> [r \in Loads |-> None],
           window      |-> [n \in Names |-> None],
           lState      |-> [l \in Loads |-> "idle"],
           isLoading   |-> FALSE,
           appData     |-> None]

NoCall == [fn |-> "none", dayCount |-> 0, field |-> "none"]

\* No indicator call has been made on the bars.
IndCalled(bars) == [data |-> bars, call |-> NoCall, out |-> <<>>]

IndIdle == ind = IndCalled(<<>>)

\* runStrategy has been called on the bars and has not taken a step (lines
\* 252-257).
StratCalled(bars) ==
    [data |-> bars, ma10 |-> <<>>, ma100 |-> <<>>, startIndex |-> 0, i |-> 0,
     cash |-> <<InitialCash, 1>>, holdings |-> <<0, 1>>, trades |-> <<>>,
     capitalCurve |-> <<>>, benchmarkCurve |-> <<>>, pc |-> "called",
     ret |-> <<>>]

StratIdle == strat = StratCalled(<<>>)

\* fetchVolumeData has not been called; the remote has published srcLen
\* lines and nothing is persisted.
VolInstalled(n) ==
    [srcLen |-> n, store |-> <<>>, pc |-> "idle", calls |-> 0,
     cached |-> <<>>, finalData |-> <<>>, result |-> <<>>]

VolIdle == vol = VolInstalled(0)

NonSyncIdle == NetIdle /\ IndIdle /\ StratIdle /\ VolIdle

InitCalls ==
    /\ pc = [c \in Calls |-> "idle"]
    /\ key = [c \in Calls |-> "volume_data_v2"]
    /\ cached = [c \in Calls |-> <<>>]
    /\ newData = [c \in Calls |-> <<>>]
    /\ finalData = [c \in Calls |-> <<>>]
    /\ result = [c \in Calls |-> <<>>]
    /\ writes = [c \in Calls |-> <<>>]
    /\ fetches = [c \in Calls |-> <<>>]
    /\ cacheFailed = [c \in Calls |-> FALSE]
    /\ before = [c \in Calls |-> {}]

\* The store holds, for each key in use, a prefix of the remote history (what
\* earlier runs persisted) or nothing.
InitStore ==
    /\ srcLen \in 0..MaxDate
    /\ store \in [Keys -> {Range(1, n) : n \in 0..srcLen}]
    /\ \A k \in Keys \ keysInUse : store[k] = <<>>

\* One key is synced, by any number of concurrent calls; the remote keeps
\* its contract.  The key is the volume key: syncData treats every key alike,
\* and SpecKeys runs calls on the two keys together.
Init ==
    /\ NonSyncIdle
    /\ sourceAscending = TRUE
    /\ keysInUse = {"volume_data_v2"}
    /\ InitStore
    /\ InitCalls

\* As Init, with a remote that may break its contract.
InitAnySource ==
    /\ NonSyncIdle
    /\ sourceAscending \in BOOLEAN
    /\ keysInUse \in {{k} : k \in Keys}
    /\ InitStore
    /\ InitCalls

\* Calls on both keys run concurrently; the remote starts with at most one
\* bar published (it grows from there) and both entries are up to date.
InitKeys ==
    /\ NonSyncIdle
    /\ sourceAscending = TRUE
    /\ keysInUse = Keys
    /\ srcLen \in 0..1
    /\ store = [k \in Keys |-> Range(1, srcLen)]
    /\ InitCalls

\* syncData(k, fetchFn) is invoked; calls are numbered in invocation order.
Start(c, k) ==
    /\ pc[c] = "idle"
    /\ k \in keysInUse
    /\ \A d \in Calls : d < c => pc[d] # "idle"
    /\ pc' = [pc EXCEPT ![c] = "getItem"]
    /\ key' = [key EXCEPT ![c] = k]
    /\ before' = [before EXCEPT ![c] = {d \in Calls : Finished(d)}]
    /\ UNCHANGED nonSyncVars
    /\ UNCHANGED <<store, srcLen, sourceAscending, keysInUse, cached, newData,
                   finalData, result, writes, fetches, cacheFailed>>

\* line 45: getItem resolves; `|| []` turns an absent entry into [].
GetItemOk(c) ==
    /\ pc[c] = "getItem"
    /\ cached' = [cached EXCEPT ![c] = store[key[c]]]
    /\ pc' = [pc EXCEPT ![c] = "fetch"]
    /\ UNCHANGED nonSyncVars
    /\ UNCHANGED <<store, srcLen, sourceAscending, keysInUse, key, newData,
                   finalData, result, writes, fetches, cacheFailed, before>>

\* line 45: getItem rejects; control passes to the catch block.
GetItemFail(c) ==
    /\ pc[c] = "getItem"
    /\ cacheFailed' = [cacheFailed EXCEPT ![c] = TRUE]
    /\ pc' = [pc EXCEPT ![c] = "fallback"]
    /\ UNCHANGED nonSyncVars
    /\ UNCHANGED <<store, srcLen, sourceAscending, keysInUse, key, cached,
                   newData, finalData, result, writes, fetches, before>>

\* lines 54-74: fetchFn(lastDate) settles, then the merge runs synchronously
\* up to the return or to the setItem it awaits.  A rejection of fetchFn
\* passes control to the catch block.
Fetch(c) ==
    /\ pc[c] = "fetch"
    /\ \E o \in JsonpOutcomes(LastDate(cached[c])) :
        LET r == FetchRawKlines(o)
            m == Merge(cached[c], r.value)
        IN  /\ fetches' = [fetches EXCEPT
                    ![c] = Append(@, FetchLog(LastDate(cached[c]), o, r))]
            /\ IF r.thrown
               THEN /\ pc' = [pc EXCEPT ![c] = "fallback"]
                    /\ UNCHANGED <<newData, finalData, result>>
               ELSE /\ newData' = [newData EXCEPT ![c] = r.value]
                    /\ finalData' = [finalData EXCEPT ![c] = m.final]
                    /\ IF m.persist
                       THEN /\ pc' = [pc EXCEPT ![c] = "setItem"]
                            /\ UNCHANGED result
                       ELSE /\ pc' = [pc EXCEPT ![c] = "done"]
                            /\ result' = [result EXCEPT ![c] = m.final]
    /\ UNCHANGED nonSyncVars
    /\ UNCHANGED <<store, srcLen, sourceAscending, keysInUse, key, cached,
                   writes, cacheFailed, before>>

\* A store that persists the merge bar by bar instead of in one setItem.
SetItemChunked(c) ==
    /\ pc[c] = "setItem"
    /\ LET n == Len(store[key[c]]) + 1
           part == IF n < Len(finalData[c])
                   THEN SubSeq(finalData[c], 1, n) ELSE finalData[c]
       IN  /\ store' = [store EXCEPT ![key[c]] = part]
           /\ writes' = [writes EXCEPT ![c] = Append(@, part)]
           /\ IF part = finalData[c]
              THEN /\ result' = [result EXCEPT ![c] = finalData[c]]
                   /\ pc' = [pc EXCEPT ![c] = "done"]
              ELSE UNCHANGED <<result, pc>>
    /\ UNCHANGED nonSyncVars
    /\ UNCHANGED <<srcLen, sourceAscending, keysInUse, key, cached, newData,
                   finalData, fetches, cacheFailed, before>>

\* setItem under one fixed key, whatever the key of the call.
SetItemOkOneEntry(c) ==
    /\ pc[c] = "setItem"
    /\ store' = [store EXCEPT !["volume_data_v2"] = finalData[c]]
    /\ writes' = [writes EXCEPT ![c] = Append(@, finalData[c])]
    /\ result' = [result EXCEPT ![c] = finalData[c]]
    /\ pc' = [pc EXCEPT ![c] = "done"]
    /\ UNCHANGED nonSyncVars
    /\ UNCHANGED <<srcLen, sourceAscending, keysInUse, key, cached, newData,
                   finalData, fetches, cacheFailed, before>>

\* lines 66/71 then 74: setItem stores finalData, the call returns it.
SetItemOk(c) ==
    /\ pc[c] = "setItem"
    /\ store' = [store EXCEPT ![key[c]] = finalData[c]]
    /\ writes' = [writes EXCEPT ![c] = Append(@, finalData[c])]
    /\ result' = [result EXCEPT ![c] = finalData[c]]
    /\ pc' = [pc EXCEPT ![c] = "done"]
    /\ UNCHANGED nonSyncVars
    /\ UNCHANGED <<srcLen, sourceAscending, keysInUse, key, cached, newData,
                   finalData, fetches, cacheFailed, before>>

\* lines 66/71: setItem rejects and stores nothing; control passes to catch.
SetItemFail(c) ==
    /\ pc[c] = "setItem"
    /\ cacheFailed' = [cacheFailed EXCEPT ![c] = TRUE]
    /\ pc' = [pc EXCEPT ![c] = "fallback"]
    /\ UNCHANGED nonSyncVars
    /\ UNCHANGED <<store, srcLen, sourceAscending, keysInUse, key, cached,
                   newData, finalData, result, writes, fetches, before>>

\* lines 76-80: return fetchFn(undefined); a rejection of it is the call's.
Fallback(c) ==
    /\ pc[c] = "fallback"
    /\ \E o \in JsonpOutcomes(FallbackStart(c)) :
        LET r == FetchRawKlines(o)
        IN  /\ fetches' = [fetches EXCEPT
                    ![c] = Append(@, FetchLog(FallbackStart(c), o, r))]
            /\ IF r.thrown
               THEN /\ pc' = [pc EXCEPT ![c] = "rejected"]
                    /\ UNCHANGED result
               ELSE /\ result' = [result EXCEPT ![c] = r.value]
                    /\ pc' = [pc EXCEPT ![c] = "done"]
    /\ UNCHANGED nonSyncVars
    /\ UNCHANGED <<store, srcLen, sourceAscending, keysInUse, key, cached,
                   newData, finalData, writes, cacheFailed, before>>

\* The remote publishes the bar of the next date.
SourceGrow ==
    /\ srcLen < MaxDate
    /\ srcLen' = srcLen + 1
    /\ UNCHANGED nonSyncVars
    /\ UNCHANGED <<store, sourceAscending, keysInUse, pc, key, cached, newData,
                   finalData, result, writes, fetches, cacheFailed, before>>

\* The page is closed: every call in flight is abandoned where it stands; the
\* store (IndexedDB) outlives the page.
Unload ==
    /\ \E c \in Calls : InFlight(c)
    /\ pc' = [c \in Calls |-> IF InFlight(c) THEN "abandoned" ELSE pc[c]]
    /\ UNCHANGED nonSyncVars
    /\ UNCHANGED <<store, srcLen, sourceAscending, keysInUse, key, cached,
                   newData, finalData, result, writes, fetches, cacheFailed,
                   before>>

Next ==
    \/ \E c \in Calls, k \in Keys : Start(c, k)
    \/ \E c \in Calls : GetItemOk(c)
    \/ \E c \in Calls : GetItemFail(c)
    \/ \E c \in Calls : Fetch(c)
    \/ \E c \in Calls : SetItemOk(c)
    \/ \E c \in Calls : SetItemFail(c)
    \/ \E c \in Calls : Fallback(c)
    \/ SourceGrow
    \/ Unload

Spec == Init /\ [][Next]_vars

SpecAnySource == InitAnySource /\ [][Next]_vars

\* syncData(k, fetchFn) is invoked while no other call on k is in flight
\* (calls on one key follow one another, calls on different keys overlap).
StartExclusive(c, k) ==
    /\ \A d \in Calls : InFlight(d) => key[d] # k
    /\ Start(c, k)

NextKeys ==
    \/ \E c \in Calls, k \in Keys : StartExclusive(c, k)
    \/ \E c \in Calls : GetItemOk(c)
    \/ \E c \in Calls : GetItemFail(c)
    \/ \E c \in Calls : Fetch(c)
    \/ \E c \in Calls : SetItemOk(c)
    \/ \E c \in Calls : SetItemFail(c)
    \/ \E c \in Calls : Fallback(c)
    \/ SourceGrow
    \/ Unload

SpecKeys == InitKeys /\ [][NextKeys]_vars

\* ------------------------------------------------- jsonp and App.loadData
\* No syncData call is modelled beside the loads: a load stands for the chain
\* loadData -> fetchBacktestData -> syncData -> fetchRawKlines -> jsonp, which
\* issues one request (request l is the one of load l).
SyncIdle ==
    /\ sourceAscending = TRUE
    /\ keysInUse = {}
    /\ srcLen = 0
    /\ store = [k \in Keys |-> <<>>]
    /\ InitCalls

Settled(r) == net.jState[r] \in {"resolved", "rejected"}

\* resolve/reject of a promise: only the first settles it.
SettleTo(js, r, how) ==
    IF js[r] = "pending" THEN [js EXCEPT ![r] = how] ELSE js

\* App.tsx 28-30, 170-193: the effect runs loadData, which sets isLoading and
\* (down the chain) calls jsonp: a callback name from Date.now() and
\* Math.random(), the closure registered under it, the script appended.
LoadStart(l, n) ==
    /\ net.lState[l] = "idle"
    /\ \A m \in Loads : m < l => net.lState[m] # "idle"
    /\ net' = [net EXCEPT !.lState[l] = "awaiting",
                          !.isLoading = TRUE,
                          !.jName[l] = n,
                          !.window[n] = l,
                          !.jState[l] = "pending",
                          !.scriptState[l] = "loading"]
    /\ UNCHANGED nonNetVars

\* The script of request r arrives and runs `callbackName(data)`: the closure
\* registered under the name (lines 175-181) deletes the name and resolves
\* its promise; with no closure under the name the call throws in the script.
ScriptCallsBack(r) ==
    /\ net.scriptState[r] = "loading"
    /\ LET h == net.window[net.jName[r]]
       IN  IF h # None
           THEN net' = [net EXCEPT !.scriptState[r] = "ran",
                                   !.window[net.jName[r]] = None,
                                   !.jState = SettleTo(net.jState, h, "resolved")]
           ELSE net' = [net EXCEPT !.scriptState[r] = "ran"]
    /\ UNCHANGED nonNetVars

\* The script fails to load: script.onerror (lines 184-190) deletes the name
\* and rejects the promise of r.
ScriptError(r) ==
    /\ net.scriptState[r] = "loading"
    /\ net' = [net EXCEPT !.scriptState[r] = "failed",
                          !.window[net.jName[r]] = None,
                          !.jState = SettleTo(net.jState, r, "rejected")]
    /\ UNCHANGED nonNetVars

\* The script loads but its body does not call the callback (an error page,
\* an empty body): neither the closure nor onerror runs, and jsonp sets no
\* timer.
ScriptLoadsSilently(r) ==
    /\ net.scriptState[r] = "loading"
    /\ net' = [net EXCEPT !.scriptState[r] = "ran"]
    /\ UNCHANGED nonNetVars

\* part_002 25-33 and App.tsx 46-51: the awaited jsonp promise settled
\* (fetchRawKlines turns a rejection into []), the chain returns, loadData
\* calls setData(result) and, in finally, setIsLoading(false).
LoadFinish(l) ==
    /\ net.lState[l] = "awaiting"
    /\ Settled(l)
    /\ net' = [net EXCEPT !.lState[l] = "finished",
                          !.appData = l,
                          !.isLoading = FALSE]
    /\ UNCHANGED nonNetVars

InitNet == SyncIdle /\ NetIdle /\ IndIdle /\ StratIdle /\ VolIdle

NextNet ==
    \/ \E l \in Loads, n \in Names : LoadStart(l, n)
    \/ \E r \in Loads : ScriptCallsBack(r)
    \/ \E r \in Loads : ScriptError(r)
    \/ \E r \in Loads : ScriptLoadsSilently(r)
    \/ \E l \in Loads : LoadFinish(l)

\* Every script element reaches one of its three ends (the browser ends a
\* load), and a continuation whose promise settled runs.
NetFairness ==
    /\ \A r \in Loads :
        WF_vars(ScriptCallsBack(r) \/ ScriptError(r) \/ ScriptLoadsSilently(r))
    /\ \A l \in Loads : WF_vars(LoadFinish(l))

SpecNet == InitNet /\ [][NextNet]_vars

SpecNetFair == SpecNet /\ NetFairness

\* ---------------------------------------------------- JavaScript numbers
\* A number is <<n, d>>: the rational n/d in lowest terms with d > 0, or
\* Infinity = <<1, 0>>, -Infinity = <<-1, 0>>, NaN = <<0, 0>>.  The inputs
\* below keep every intermediate value exactly representable (or an exact
\* decimal of at most four places), so the exact rational is the double the
\* program computes; -0 is not told apart from 0.
Abs(n) == IF n < 0 THEN -n ELSE n

Sign(n) == IF n < 0 THEN -1 ELSE IF n > 0 THEN 1 ELSE 0

RECURSIVE GCD(_, _)
GCD(a, b) == IF b = 0 THEN a ELSE GCD(b, a % b)

Norm(n, d) ==
    [a \in Int, b \in Int |->
        IF b = 0 THEN <<Sign(a), 0>>
        ELSE LET g == GCD(Abs(a), Abs(b))
                 s == Sign(b)
             IN  <<(s * a) \div g, (s * b) \div g>>][n, d]

\* The operands of an operation are evaluated before it: an operation is a
\* function applied to the values of its operands.
Number == Int \X Int

NaN == <<0, 0>>
PosInf == <<1, 0>>
NegInf == <<-1, 0>>
Num(n) == <<n, 1>>

IsNaN(x) == x = NaN
IsFinite(x) == x[2] # 0

Neg(x) == <<-x[1], x[2]>>

Mul(x, y) ==
    [a \in Number, b \in Number |->
        IF IsNaN(a) \/ IsNaN(b) THEN NaN ELSE Norm(a[1] * b[1], a[2] * b[2])][x, y]

Div(x, y) ==
    [a \in Number, b \in Number |->
        IF IsNaN(a) \/ IsNaN(b) THEN NaN ELSE Mul(a, Norm(b[2], b[1]))][x, y]

Add(x, y) ==
    [a \in Number, b \in Number |->
        IF IsNaN(a) \/ IsNaN(b) THEN NaN
        ELSE IF ~IsFinite(a) THEN (IF ~IsFinite(b) /\ b # a THEN NaN ELSE a)
        ELSE IF ~IsFinite(b) THEN b
        ELSE Norm(a[1] * b[2] + b[1] * a[2], a[2] * b[2])][x, y]

Sub(x, y) == Add(x, Neg(y))

\* x < y, x > y, x <= y, x >= y, x === y: every comparison with NaN is false.
Lt(x, y) ==
    [a \in Number, b \in Number |->
        /\ ~IsNaN(a)
        /\ ~IsNaN(b)
        /\ IF IsFinite(a) /\ IsFinite(b) THEN a[1] * b[2] < b[1] * a[2]
           ELSE IF ~IsFinite(a) THEN a = NegInf /\ b # NegInf
           ELSE b = PosInf][x, y]

Gt(x, y) == Lt(y, x)
StrictEq(x, y) == ~IsNaN(x) /\ x = y
Le(x, y) == Lt(x, y) \/ StrictEq(x, y)
Ge(x, y) == Le(y, x)

\* `x || 1`: 0 and NaN are falsy.
Truthy(x) == ~IsNaN(x) /\ x # Num(0)

Pow10(k) == IF k = 0 THEN 1 ELSE IF k = 2 THEN 100 ELSE 10000

\* Number.prototype.toFixed(digits) as a decimal: the sign of x, and the
\* integer n for which n / 10^digits is closest to |x|, the larger n on a tie.
ToFixed(x, digits) ==
    IF ~IsFinite(x) THEN [kind |-> "special", value |-> x]
    ELSE [kind   |-> "decimal",
          neg    |-> x[1] < 0,
          scaled |-> (2 * Abs(x[1]) * Pow10(digits) + x[2]) \div (2 * x[2]),
          digits |-> digits]

RECURSIVE PadLeft(_, _)
PadLeft(s, n) == IF Len(s) >= n THEN s ELSE PadLeft("0" \o s, n)

\* The string toFixed returns, e.g. "0.00", "-100.00", "50", "NaN".
Str(f) ==
    IF f.kind = "special"
    THEN (IF f.value = NaN THEN "NaN"
          ELSE IF f.value = PosInf THEN "Infinity" ELSE "-Infinity")
    ELSE LET p == Pow10(f.digits)
             units == ToString(f.scaled \div p)
             frac == IF f.digits = 0 THEN ""
                     ELSE "." \o PadLeft(ToString(f.scaled % p), f.digits)
         IN  (IF f.neg THEN "-" ELSE "") \o units \o frac

\* parseFloat of such a string.
ParseFloat(f) ==
    IF f.kind = "special" THEN f.value
    ELSE Norm((IF f.neg THEN -1 ELSE 1) * f.scaled, Pow10(f.digits))

Round(x, digits) == [a \in Number |-> ParseFloat(ToFixed(a, digits))][x]

\* ------------------------------------------ calculateMA and calculateHDY
\* A bar is a StockDataPoint: date, close, volume, and the optional high and
\* low (<<>> when the field is missing, <<v>> when it holds v).
Missing == <<>>
Null == <<>>

\* data[i], with the program's indices (from 0).
At(s, i) == s[i + 1]

Field(bar, field) == IF field = "close" THEN bar.close ELSE bar.volume

\* App.tsx 203-206: the sum of data[i - j][field] over j = lo .. hi - 1
\* (0 when there is none), added up by halves: the sums are exact, so the
\* order of the additions does not change the result.
RECURSIVE SumLoop(_, _, _, _, _)
SumLoop(data, field, i, lo, hi) ==
    [a \in Int, b \in Int |->
        IF b <= a THEN Num(0)
        ELSE IF b = a + 1 THEN Field(At(data, i - a), field)
        ELSE Add(SumLoop(data, field, i, a, (a + b) \div 2),
                 SumLoop(data, field, i, (a + b) \div 2, b))][lo, hi]

\* calculateMA with `i < dayCount` for the guard of line 199.
calculateMAOffByOne(dayCount, data, field) ==
    [k \in 1..Len(data) |->
        LET i == k - 1
        IN  IF i < dayCount THEN Null
            ELSE <<Round(Div(SumLoop(data, field, i, 0, dayCount),
                             Num(dayCount)), 4)>>]

\* App.tsx 197-211.  An entry is Null or <<value>>.
calculateMA(dayCount, data, field) ==
    [k \in 1..Len(data) |->
        LET i == k - 1
        IN  IF i < dayCount - 1 THEN Null
            ELSE <<Round(Div(SumLoop(data, field, i, 0, dayCount),
                             Num(dayCount)), 4)>>]

N == 34
M == 3
InitialEMA == 50

\* data[j].high ?? 0
OrZero(opt) == IF opt = Missing THEN Num(0) ELSE opt[1]

\* App.tsx 228-231: the loop over j = from .. i, carrying maxH resp. minL:
\* `if ((data[j].high ?? 0) > maxH) maxH = data[j].high ?? 0`.
RECURSIVE MaxHigh(_, _, _, _)
MaxHigh(data, j, i, maxH) ==
    IF j > i THEN maxH
    ELSE IF Gt(OrZero(At(data, j).high), maxH)
    THEN MaxHigh(data, j + 1, i, OrZero(At(data, j).high))
    ELSE MaxHigh(data, j + 1, i, maxH)

RECURSIVE MinLow(_, _, _, _)
MinLow(data, j, i, minL) ==
    IF j > i THEN minL
    ELSE IF Lt(OrZero(At(data, j).low), minL)
    THEN MinLow(data, j + 1, i, OrZero(At(data, j).low))
    ELSE MinLow(data, j + 1, i, minL)

\* rsv without the test for a flat range.
RsvUnguarded(C, maxH, minL) ==
    Mul(Div(Sub(C, minL), Sub(maxH, minL)), Num(100))

\* App.tsx 233-237.
Rsv(C, maxH, minL) ==
    IF ~StrictEq(maxH, minL) /\ ~StrictEq(maxH, NegInf)
    THEN Mul(Div(Sub(C, minL), Sub(maxH, minL)), Num(100))
    ELSE Num(50)

\* App.tsx 218, 220-241: stdEMA of iteration i >= N.  lastEMA is what the
\* previous iteration left: the initial value when that iteration was one of
\* the first N (which leave it alone), else its stdEMA.
RECURSIVE StdEMA(_, _)
StdEMA(data, i) ==
    LET lastEMA == IF i - 1 < N THEN Num(InitialEMA) ELSE StdEMA(data, i - 1)
        maxH == MaxHigh(data, i - N + 1, i, NegInf)
        minL == MinLow(data, i - N + 1, i, PosInf)
        rsv == Rsv(At(data, i).close, maxH, minL)
    IN  Div(Add(Mul(Num(2), rsv), Mul(Num(M - 1), lastEMA)), Num(M + 1))

\* App.tsx 214-245.
calculateHDY(data) ==
    [k \in 1..Len(data) |->
        LET i == k - 1
        IN  IF i < N THEN Num(50) ELSE Round(StdEMA(data, i), 2)]

\* Inputs of the indicator calls.  Short series: up to MaxBars bars without
\* high and low.  Long series: N equal bars (calculateHDY reads only their
\* high and low) followed by up to MaxTailH bars, so that its window is full.
MaxBars == 3
MaxTailH == 2
MaxWindow == 3

Closes == {Num(0), Num(2), <<1, 32>>}
Volumes == {Num(0), Num(1)}
HighLows == {<<Missing, Missing>>, <<<<Num(1)>>, Missing>>,
             <<Missing, <<Num(1)>>>>, <<<<Num(2)>>, <<Num(1)>>>>}

Bar(c, v, hl) == [close |-> c, volume |-> v, high |-> hl[1], low |-> hl[2]]

ShortBars == {Bar(c, v, <<Missing, Missing>>) : c \in Closes, v \in Volumes}
LongBars == {Bar(c, Num(1), hl) : c \in Closes, hl \in HighLows}

SeqsUpTo(S, lo, hi) == UNION {[1..n -> S] : n \in lo..hi}

\* Bars in date order: bar i carries date i.
Dated(s) == [i \in 1..Len(s) |->
                [date |-> i, close |-> s[i].close, volume |-> s[i].volume,
                 high |-> s[i].high, low |-> s[i].low]]

IndInputs ==
    {Dated(s) : s \in SeqsUpTo(ShortBars, 0, MaxBars)}
    \cup {Dated([i \in 1..N |-> Bar(Num(0), Num(1), hl)] \o tail) :
            hl \in HighLows, tail \in SeqsUpTo(LongBars, 1, MaxTailH)}

CallCalculateMA(dayCount, field) ==
    /\ ind.call = NoCall
    /\ ind' = [ind EXCEPT
                 !.call = [fn |-> "calculateMA", dayCount |-> dayCount,
                           field |-> field],
                 !.out = calculateMA(dayCount, ind.data, field)]
    /\ UNCHANGED nonIndVars

CallCalculateHDY ==
    /\ ind.call = NoCall
    /\ ind' = [ind EXCEPT
                 !.call = [fn |-> "calculateHDY", dayCount |-> 0,
                           field |-> "none"],
                 !.out = calculateHDY(ind.data)]
    /\ UNCHANGED nonIndVars

InitInd ==
    /\ SyncIdle
    /\ NetIdle
    /\ StratIdle
    /\ VolIdle
    /\ ind \in {IndCalled(bars) : bars \in IndInputs}

NextInd ==
    \/ \E dayCount \in 1..MaxWindow, field \in {"close", "volume"} :
           CallCalculateMA(dayCount, field)
    \/ CallCalculateHDY

SpecInd == InitInd /\ [][NextInd]_vars

\* ------------------------------------------------------------ runStrategy
ShortWindow == 10
LongWindow == 100
FirstIndex == 100

\* App.tsx 261-263 without the isNaN test.
RECURSIVE FindStartAnyClose(_, _, _)
FindStartAnyClose(bars, longMA, s) ==
    IF s < Len(bars) /\ At(longMA, s) = Null
    THEN FindStartAnyClose(bars, longMA, s + 1)
    ELSE s

\* App.tsx 261-263: the while loop over startIndex.
RECURSIVE FindStart(_, _, _)
FindStart(bars, longMA, s) ==
    IF s < Len(bars) /\ (IsNaN(At(bars, s).close) \/ At(longMA, s) = Null)
    THEN FindStart(bars, longMA, s + 1)
    ELSE s

\* Signal with crossings from strictly below resp. above only.
SignalStrict(prevMA10, prevMA100, currMA10, currMA100) ==
    IF prevMA10 # Null /\ prevMA100 # Null /\ currMA10 # Null /\ currMA100 # Null
    THEN LET first == IF Lt(prevMA10[1], prevMA100[1]) /\ Gt(currMA10[1], currMA100[1])
                      THEN "buy" ELSE "hold"
         IN  IF Gt(prevMA10[1], prevMA100[1]) /\ Lt(currMA10[1], currMA100[1])
             THEN "sell" ELSE first
    ELSE "hold"

\* Signal that sells when the short average comes down to the long one.
SignalSellOnTouch(prevMA10, prevMA100, currMA10, currMA100) ==
    IF prevMA10 # Null /\ prevMA100 # Null /\ currMA10 # Null /\ currMA100 # Null
    THEN LET first == IF Le(prevMA10[1], prevMA100[1]) /\ Gt(currMA10[1], currMA100[1])
                      THEN "buy" ELSE "hold"
         IN  IF Ge(prevMA10[1], prevMA100[1]) /\ Le(currMA10[1], currMA100[1])
             THEN "sell" ELSE first
    ELSE "hold"

\* App.tsx 298-303: the action of an iteration.
Signal(prevMA10, prevMA100, currMA10, currMA100) ==
    IF prevMA10 # Null /\ prevMA100 # Null /\ currMA10 # Null /\ currMA100 # Null
    THEN LET first == IF Le(prevMA10[1], prevMA100[1]) /\ Gt(currMA10[1], currMA100[1])
                      THEN "buy" ELSE "hold"
         IN  IF Ge(prevMA10[1], prevMA100[1]) /\ Lt(currMA10[1], currMA100[1])
             THEN "sell" ELSE first
    ELSE "hold"

SignalAt(i) ==
    Signal(At(strat.ma10, i - 1), At(strat.ma100, i - 1),
           At(strat.ma10, i), At(strat.ma100, i))

\* App.tsx 265-276.
Neutral ==
    [trades |-> <<>>, capitalCurve |-> <<>>, benchmarkCurve |-> <<>>,
     finalNetValue |-> Num(1), returnRate |-> "0.00",
     benchmarkReturn |-> "0.00", winRate |-> "0", tradeCount |-> 0]

\* App.tsx 320, 322: curve[curve.length - 1]?.value || 1.
LastValueOrOne(curve) ==
    IF Len(curve) = 0 THEN Num(1)
    ELSE IF Truthy(curve[Len(curve)].value) THEN curve[Len(curve)].value
    ELSE Num(1)

\* App.tsx 321, 323.
Percent(netValue) ==
    [a \in Number |-> Str(ToFixed(Mul(Sub(a, Num(1)), Num(100)), 2))][netValue]

\* App.tsx 325-326.  trades[i - 1] is read for the sell trades only.
SellTrades(log) == {k \in 1..Len(log) : log[k].type = "sell"}
WinTradesOrEqual(log) ==
    {k \in 1..Len(log) : log[k].type = "sell" /\ Ge(log[k].price, log[k - 1].price)}

WinTrades(log) ==
    {k \in 1..Len(log) : log[k].type = "sell" /\ Gt(log[k].price, log[k - 1].price)}

\* App.tsx 327.
WinRate(log) ==
    IF Cardinality(SellTrades(log)) > 0
    THEN Str(ToFixed(Mul(Div(Num(Cardinality(WinTrades(log))),
                             Num(Cardinality(SellTrades(log)))), Num(100)), 0))
    ELSE "0"

\* App.tsx 249-250, 260-263: the moving averages and the start index.
Prepare ==
    /\ strat.pc = "called"
    /\ LET longMA == calculateMA(LongWindow, strat.data, "volume")
       IN  strat' = [strat EXCEPT
                       !.ma10 = calculateMA(ShortWindow, strat.data, "volume"),
                       !.ma100 = longMA,
                       !.startIndex = FindStart(strat.data, longMA, FirstIndex),
                       !.pc = "prepared"]
    /\ UNCHANGED nonStratVars

\* App.tsx 265-276: no start index, the neutral result.
ReturnNeutral ==
    /\ strat.pc = "prepared"
    /\ strat.startIndex >= Len(strat.data)
    /\ strat' = [strat EXCEPT !.ret = <<Neutral>>, !.pc = "returned"]
    /\ UNCHANGED nonStratVars

\* Align without the entries: the loop starts at startIndex with empty curves.
AlignNothing ==
    /\ strat.pc = "prepared"
    /\ strat.startIndex < Len(strat.data)
    /\ strat' = [strat EXCEPT !.i = strat.startIndex, !.pc = "loop"]
    /\ UNCHANGED nonStratVars

\* App.tsx 280-286: the iterations i < startIndex, which only align the curves.
Align ==
    /\ strat.pc = "prepared"
    /\ strat.startIndex < Len(strat.data)
    /\ LET ones == [k \in 1..strat.startIndex |->
                       [date |-> strat.data[k].date, value |-> Num(1)]]
       IN  strat' = [strat EXCEPT !.capitalCurve = ones,
                                  !.benchmarkCurve = ones,
                                  !.i = strat.startIndex,
                                  !.pc = "loop"]
    /\ UNCHANGED nonStratVars

\* An iteration that does not advance i.
IterateWithoutStep ==
    /\ strat.pc = "loop"
    /\ strat.i < Len(strat.data)
    /\ UNCHANGED vars

\* App.tsx 288-317: one iteration i >= startIndex.
Iterate ==
    /\ strat.pc = "loop"
    /\ strat.i < Len(strat.data)
    /\ LET price == At(strat.data, strat.i).close
           date == At(strat.data, strat.i).date
           initialPrice == At(strat.data, strat.startIndex).close
           action == SignalAt(strat.i)
           buys == action = "buy" /\ StrictEq(strat.holdings, Num(0))
           sells == ~buys /\ action = "sell" /\ Gt(strat.holdings, Num(0))
           cash == IF buys THEN Num(0)
                   ELSE IF sells THEN Mul(strat.holdings, price) ELSE strat.cash
           holdings == IF buys THEN Div(strat.cash, price)
                       ELSE IF sells THEN Num(0) ELSE strat.holdings
           totalAsset == Add(cash, Mul(holdings, price))
       IN  strat' = [strat EXCEPT
               !.benchmarkCurve = Append(@,
                   [date |-> date, value |-> Round(Div(price, initialPrice), 4)]),
               !.cash = cash,
               !.holdings = holdings,
               !.trades =
                   IF buys
                   THEN Append(@, [date |-> date, type |-> "buy", price |-> price])
                   ELSE IF sells
                   THEN Append(@, [date |-> date, type |-> "sell", price |-> price])
                   ELSE @,
               !.capitalCurve = Append(@,
                   [date |-> date,
                    value |-> Round(Div(totalAsset, Num(initialCapital)), 4)]),
               !.i = @ + 1]
    /\ UNCHANGED nonStratVars

\* App.tsx 326: trades[i - 1] is undefined for a sell at index 0 of the log,
\* and reading its price throws a TypeError.
Throws(log) == Len(log) > 0 /\ log[1].type = "sell"

\* App.tsx 320-338: the aggregation and the return.
Aggregate ==
    /\ strat.pc = "loop"
    /\ strat.i >= Len(strat.data)
    /\ LET finalNetValue == LastValueOrOne(strat.capitalCurve)
           finalBenchmarkNetValue == LastValueOrOne(strat.benchmarkCurve)
       IN  strat' = IF Throws(strat.trades) THEN [strat EXCEPT !.pc = "thrown"] ELSE
                   [strat EXCEPT
               !.ret = <<[trades |-> strat.trades,
                          capitalCurve |-> strat.capitalCurve,
                          benchmarkCurve |-> strat.benchmarkCurve,
                          finalNetValue |-> finalNetValue,
                          returnRate |-> Percent(finalNetValue),
                          benchmarkReturn |-> Percent(finalBenchmarkNetValue),
                          winRate |-> WinRate(strat.trades),
                          tradeCount |-> Len(strat.trades)]>>,
               !.pc = "returned"]
    /\ UNCHANGED nonStratVars

\* Inputs of runStrategy.  Every series opens with bars of close 1 and
\* volume 2, so that both moving averages are 2 at index 99.
MaxTail == 3
MaxCrosses == 5
SeriesLength == 110

HeadBars(n) == [k \in 1..n |-> Bar(Num(1), Num(2), <<Missing, Missing>>)]

TailBars == {Bar(c, v, <<Missing, Missing>>) :
                c \in {NaN, Num(0), Num(1), Num(2)}, v \in {Num(0), Num(4)}}

\* Volumes after the head that make the averages cross at every index: up
\* at 100, down at 101, up at 102, ...
CrossVolume(k) == IF k = 1 THEN Num(3) ELSE IF k % 2 = 1 THEN Num(4) ELSE Num(0)

\* Series too short for a start index.
ShortSeries == {HeadBars(n) : n \in {0, 1, FirstIndex - 1}}

\* The head and up to MaxTail bars of any close and a low or high volume.
TailSeries == {HeadBars(FirstIndex) \o tail : tail \in SeqsUpTo(TailBars, 0, MaxTail)}

\* The head and bars whose volumes cross at every index.
CrossSeries ==
    {HeadBars(FirstIndex) \o [k \in 1..n |-> Bar(c[k], CrossVolume(k), <<Missing, Missing>>)] :
        n \in (MaxTail + 1)..MaxCrosses, c \in [1..MaxCrosses -> {Num(0), Num(1), Num(2)}]}

\* SeriesLength bars of rising close a + d*k and volume 2, but for the
\* volumes at the indices 102 and 108.
RisingSeries ==
    {[k \in 1..SeriesLength |->
         Bar(Num(a + d * k),
             IF k - 1 = 102 THEN Num(up) ELSE IF k - 1 = 108 THEN Num(down) ELSE Num(2),
             <<Missing, Missing>>)] :
        a \in {0, 1}, d \in {1, 2}, up \in {2, 3}, down \in {0, 2}}

StratInputs ==
    {Dated(s) : s \in ShortSeries \cup TailSeries \cup CrossSeries \cup RisingSeries}

InitStrat ==
    /\ SyncIdle
    /\ NetIdle
    /\ IndIdle
    /\ VolIdle
    /\ strat \in {StratCalled(bars) : bars \in StratInputs}

NextStrat ==
    \/ Prepare
    \/ ReturnNeutral
    \/ Align
    \/ Iterate
    \/ Aggregate

SpecStrat == InitStrat /\ [][NextStrat]_vars

\* The series that are too short or malformed: those of ShortSeries, and
\* the head with up to MaxTailNaN bars whose close is NaN or 1.
MaxTailNaN == 2

NaNTailBars == {Bar(c, v, <<Missing, Missing>>) : c \in {NaN, Num(1)}, v \in {Num(0), Num(4)}}

NaNSeries ==
    ShortSeries \cup
    {HeadBars(FirstIndex) \o tail : tail \in SeqsUpTo(NaNTailBars, 0, MaxTailNaN)}

InitStratFair ==
    /\ SyncIdle
    /\ NetIdle
    /\ IndIdle
    /\ VolIdle
    /\ strat \in {StratCalled(Dated(s)) : s \in NaNSeries}

\* runStrategy is a synchronous function: once called it runs on until it
\* returns or throws.
SpecStratFair == InitStratFair /\ [][NextStrat]_vars /\ WF_vars(NextStrat)

\* -------------------------------------------------------- fetchVolumeData
\* The sixth field of a kline (f57) in units of 10^8, and the divisor of
\* part_002 115 (10^12) in the same units.
AmountScale == 10000

\* What the two markets traded on date d.
ShAmount(d) == <<30000 + d, 3>>
SzAmount(d) == <<15000 + d, 3>>
Amount(secid, d) == IF secid = "1.000001" THEN ShAmount(d) ELSE SzAmount(d)

\* A line of a reply split at the commas: p.length, p[0], p[2], p[5].
Line(d, amount) == [length |-> 6, date |-> d, close |-> Num(d), amount |-> amount]

\* What a fetchRawKlines of the two may yield for beg = startDate (the
\* boundary date included): the lines published, without the last one when
\* the market's history lags, [] when jsonp rejected.
RawOutcomes == {"ok", "lags", "failed"}

RawKlines(outcome, secid, startDate) ==
    LET first == IF startDate = None THEN 1 ELSE startDate
        last == IF outcome = "lags" THEN vol.srcLen - 1 ELSE vol.srcLen
    IN  IF outcome = "failed" \/ last < first THEN <<>>
        ELSE [k \in 1..(last - first + 1) |->
                 Line(first + k - 1, Amount(secid, first + k - 1))]

\* szMap.get(date) || 0 with the map built by lines 92-99.
SzVol(linesSZ, date) ==
    LET hits == {k \in 1..Len(linesSZ) :
                    /\ linesSZ[k].length > 5
                    /\ ~IsNaN(linesSZ[k].amount)
                    /\ linesSZ[k].date = date}
        last == CHOOSE k \in hits : \A h \in hits : h <= k
    IN  IF hits # {} /\ Truthy(linesSZ[last].amount) THEN linesSZ[last].amount
        ELSE Num(0)

\* part_002 90-119: the bars built from the two replies.
VolumeBars(linesSH, linesSZ) ==
    LET kept == SelectSeq(linesSH, LAMBDA p :
                    p.length > 5 /\ ~IsNaN(p.close) /\ ~IsNaN(p.amount))
    IN  [k \in 1..Len(kept) |->
            [date |-> kept[k].date, close |-> kept[k].close,
             volume |-> Round(Div(Add(kept[k].amount, SzVol(linesSZ, kept[k].date)),
                                  Num(AmountScale)), 4)]]

\* part_002 84-120: the fetchFn of fetchVolumeData.
VolumeFetchFn(startDate, outcomeSH, outcomeSZ) ==
    LET linesSH == RawKlines(outcomeSH, "1.000001", startDate)
        linesSZ == RawKlines(outcomeSZ, "0.399001", startDate)
    IN  IF Len(linesSH) = 0 THEN <<>> ELSE VolumeBars(linesSH, linesSZ)

\* part_002 48-51 on bars.
LastBarDate(c) == IF Len(c) > 0 THEN c[Len(c)].date ELSE None

\* part_002 57-72 on bars.
MergeBars(cs, nd) ==
    LET lastDate == LastBarDate(cs)
        freshData == SelectSeq(nd, LAMBDA d : d.date > lastDate)
    IN  IF Len(nd) = 0 THEN [final |-> cs, persist |-> FALSE]
        ELSE IF lastDate # None
        THEN IF Len(freshData) > 0
             THEN [final |-> cs \o freshData, persist |-> TRUE]
             ELSE [final |-> cs, persist |-> FALSE]
        ELSE [final |-> nd, persist |-> TRUE]

\* App.tsx 35: fetchVolumeData() is called, syncData starts.
VolStart ==
    /\ vol.pc = "idle"
    /\ vol.calls < NumCalls
    /\ vol' = [vol EXCEPT !.pc = "getItem", !.calls = @ + 1]
    /\ UNCHANGED nonVolVars

\* part_002 45: getItem resolves.
VolGetItemOk ==
    /\ vol.pc = "getItem"
    /\ vol' = [vol EXCEPT !.cached = vol.store, !.pc = "fetch"]
    /\ UNCHANGED nonVolVars

\* part_002 45: getItem rejects.
VolGetItemFail ==
    /\ vol.pc = "getItem"
    /\ vol' = [vol EXCEPT !.pc = "fallback"]
    /\ UNCHANGED nonVolVars

\* part_002 54-74: the two fetches settle, the bars are built and merged.
VolFetch(outcomeSH, outcomeSZ) ==
    /\ vol.pc = "fetch"
    /\ LET fetched == VolumeFetchFn(LastBarDate(vol.cached), outcomeSH, outcomeSZ)
           m == MergeBars(vol.cached, fetched)
       IN  vol' = IF m.persist
                  THEN [vol EXCEPT !.finalData = m.final, !.pc = "setItem"]
                  ELSE [vol EXCEPT !.finalData = m.final, !.result = m.final,
                                   !.pc = "idle"]
    /\ UNCHANGED nonVolVars

\* part_002 66/71, 74: setItem stores finalData.
VolSetItemOk ==
    /\ vol.pc = "setItem"
    /\ vol' = [vol EXCEPT !.store = vol.finalData, !.result = vol.finalData,
                          !.pc = "idle"]
    /\ UNCHANGED nonVolVars

\* part_002 66/71: setItem rejects.
VolSetItemFail ==
    /\ vol.pc = "setItem"
    /\ vol' = [vol EXCEPT !.pc = "fallback"]
    /\ UNCHANGED nonVolVars

\* part_002 76-80: return fetchFn(undefined).
VolFallback(outcomeSH, outcomeSZ) ==
    /\ vol.pc = "fallback"
    /\ vol' = [vol EXCEPT !.result = VolumeFetchFn(None, outcomeSH, outcomeSZ),
                          !.pc = "idle"]
    /\ UNCHANGED nonVolVars

\* The markets publish the lines of the next date.
VolSourceGrow ==
    /\ vol.srcLen < MaxDate
    /\ vol' = [vol EXCEPT !.srcLen = @ + 1]
    /\ UNCHANGED nonVolVars

InitVol ==
    /\ SyncIdle
    /\ NetIdle
    /\ IndIdle
    /\ StratIdle
    /\ vol \in {VolInstalled(n) : n \in 0..1}

NextVol ==
    \/ VolStart
    \/ VolGetItemOk
    \/ VolGetItemFail
    \/ \E sh, sz \in RawOutcomes : VolFetch(sh, sz)
    \/ VolSetItemOk
    \/ VolSetItemFail
    \/ \E sh, sz \in RawOutcomes : VolFallback(sh, sz)
    \/ VolSourceGrow

SpecVol == InitVol /\ [][NextVol]_vars

\* ================================================================== claims
NormalDone(c) == pc[c] = "done" /\ ~cacheFailed[c]

\* The bars of nd dated strictly after d, in the order of nd.
RECURSIVE BarsAfter(_, _)
BarsAfter(nd, d) ==
    IF nd = <<>> THEN <<>>
    ELSE IF Head(nd) > d THEN <<Head(nd)>> \o BarsAfter(Tail(nd), d)
    ELSE BarsAfter(Tail(nd), d)

Occurrences(s, d) == Cardinality({i \in 1..Len(s) : s[i] = d})

\* C1: against a source that replies in ascending date order, every sequence
\* stored in the cache and every sequence a syncData call returned has
\* strictly increasing dates, hence no date twice.
C1_StrictlyIncreasingDates ==
    sourceAscending =>
        /\ \A k \in Keys :
                StrictlyAscending(store[k]) /\ NoDuplicateDate(store[k])
        /\ \A c \in Calls : pc[c] = "done" =>
                StrictlyAscending(result[c]) /\ NoDuplicateDate(result[c])

\* A call merged a reply that repeats the boundary date and stored the merge.
C1_Witness ==
    \E c \in Calls :
        /\ NormalDone(c)
        /\ Len(cached[c]) > 0
        /\ Len(writes[c]) = 1
        /\ newData[c][1] = LastDate(cached[c])
        /\ store[key[c]] = result[c]
        /\ Len(result[c]) >= 2

\* A call has read the cache entry and has neither written it nor returned.
InRegion(c) == pc[c] \in {"fetch", "setItem"}

ReadsNow(d) == pc[d] = "getItem" /\ pc'[d] = "fetch"

WritesNow(d) == pc[d] = "setItem" /\ store' # store

\* C2: between a call's cache read and its cache write (or its return without
\* writing), no other call on the same key reads or writes the cache entry.
C2_NoInterleaving ==
    [][\A c, d \in Calls :
          (c # d /\ key[c] = key[d] /\ InRegion(c))
              => ~(ReadsNow(d) \/ WritesNow(d))]_vars

\* C3: every cache write stores a sequence that has the previously stored
\* sequence as a prefix.
C3_AppendOnly ==
    [][\A k \in Keys : IsPrefix(store[k], store'[k])]_vars

\* C4: with a non-empty cache and an ascending reply, syncData returns the
\* cached sequence followed by exactly the fetched bars dated strictly after
\* lastDate, each date once; a cache 1..n merged with a reply s..m that
\* overlaps its tail (s <= n <= m) gives 1..m.
C4_MergeOverlap ==
    \A c \in Calls :
        (NormalDone(c) /\ sourceAscending /\ Len(cached[c]) > 0
            /\ Len(newData[c]) > 0 /\ StrictlyAscending(cached[c]))
        => /\ result[c] = cached[c] \o BarsAfter(newData[c], LastDate(cached[c]))
           /\ \A d \in Dates : Occurrences(result[c], d) <= 1
           /\ LET n == LastDate(cached[c])
                  s == newData[c][1]
                  m == LastDate(newData[c])
              IN  (cached[c] = Range(1, n) /\ newData[c] = Range(s, m)
                      /\ s <= n /\ n <= m)
                  => result[c] = Range(1, m)

\* The cache held 1..2, the reply was 1..3: two overlapped dates, one new.
C4_Witness ==
    \E c \in Calls :
        /\ NormalDone(c)
        /\ cached[c] = <<1, 2>>
        /\ newData[c] = <<1, 2, 3>>
        /\ result[c] = <<1, 2, 3>>

\* Every call other than c1 and c2 ran wholly before c1 or wholly after c2,
\* or has not been invoked.
InSuccession(c1, c2) ==
    /\ c1 # c2
    /\ c1 \in before[c2]
    /\ \A c3 \in Calls \ {c1, c2} :
          pc[c3] = "idle" \/ c3 \in before[c1] \/ c2 \in before[c3]

NothingNewer(nd, d) == \A i \in 1..Len(nd) : nd[i] <= d

\* C5: two syncData calls in succession on one key, whose fetches return no
\* bar later than the cached last date, return the same sequence, and the
\* second performs no cache write.
C5_Idempotent ==
    \A c1, c2 \in Calls :
        (/\ InSuccession(c1, c2)
         /\ key[c1] = key[c2]
         /\ NormalDone(c1) /\ NormalDone(c2)
         /\ NothingNewer(newData[c1], LastDate(cached[c1]))
         /\ NothingNewer(newData[c2], LastDate(cached[c1])))
        => /\ result[c1] = result[c2]
           /\ writes[c2] = <<>>

\* Two calls in succession; both fetches returned only bars already cached.
C5_Witness ==
    \E c1, c2 \in Calls :
        /\ InSuccession(c1, c2)
        /\ key[c1] = key[c2]
        /\ NormalDone(c1) /\ NormalDone(c2)
        /\ Len(cached[c1]) >= 2
        /\ Len(newData[c1]) >= 1 /\ Len(newData[c2]) >= 1
        /\ NothingNewer(newData[c1], LastDate(cached[c1]))
        /\ NothingNewer(newData[c2], LastDate(cached[c1]))

\* C6: on the non-failing path syncData writes the cache entry exactly when
\* the cache was empty and the fetch returned a bar, or a fetched bar is dated
\* after lastDate; otherwise it returns the cached sequence unchanged; what
\* it writes is what it returns.
C6_WriteIff ==
    \A c \in Calls : NormalDone(c) =>
        LET last == LastDate(cached[c])
            survives == \E i \in 1..Len(newData[c]) : newData[c][i] > last
            must == (cached[c] = <<>> /\ newData[c] # <<>>) \/ survives
            wrote == writes[c] # <<>>
        IN  /\ wrote <=> must
            /\ ~wrote => result[c] = cached[c]
            /\ wrote => writes[c] = <<result[c]>>

\* One call returned the cache unwritten although its fetch returned bars
\* (none survived the filter); another call wrote.
C6_Witness ==
    \E c, d \in Calls :
        /\ NormalDone(c) /\ NormalDone(d)
        /\ newData[c] # <<>> /\ writes[c] = <<>> /\ result[c] = cached[c]
        /\ writes[d] # <<>>

LastFetch(c) == fetches[c][Len(fetches[c])]

\* C7: a call whose cache read or write failed returns what fetchFn, called
\* with no start date, returned (the full history when the transport
\* succeeded), has written nothing, and is not rejected.
C7_CacheFailureFallsBack ==
    \A c \in Calls : cacheFailed[c] =>
        /\ pc[c] # "rejected"
        /\ writes[c] = <<>>
        /\ pc[c] = "done" =>
            /\ Len(fetches[c]) >= 1
            /\ LastFetch(c).start = None
            /\ result[c] = LastFetch(c).ret
            /\ (LastFetch(c).ok /\ sourceAscending)
                    => result[c] = Range(1, LastFetch(c).at)

\* A call whose setItem failed after an incremental fetch returned the full
\* history.
C7_Witness ==
    \E c \in Calls :
        /\ pc[c] = "done" /\ cacheFailed[c]
        /\ Len(cached[c]) >= 1
        /\ Len(fetches[c]) = 2
        /\ LastFetch(c).ok
        /\ Len(result[c]) >= 2

\* C8: whatever fails (transport, cache read, cache write, the fallback
\* fetch), no syncData call is rejected, and a finished call resolved with a
\* bar sequence.
C8_NeverRejects ==
    \A c \in Calls :
        /\ pc[c] # "rejected"
        /\ pc[c] = "done" => result[c] \in Seq(Dates)

\* A call whose cache write failed and whose fallback fetch failed too.
C8_Witness ==
    \E c \in Calls :
        /\ pc[c] = "done" /\ cacheFailed[c]
        /\ Len(fetches[c]) = 2
        /\ fetches[c][1].ok /\ ~fetches[c][2].ok
        /\ result[c] = <<>>

\* C9: the sequence returned on the fallback path has strictly ascending
\* dates whatever the source replied (syncData enforces it itself).
C9_FallbackEnforcesOrder ==
    \A c \in Calls :
        (pc[c] = "done" /\ cacheFailed[c]) => StrictlyAscending(result[c])

\* The cached sequence plus all fetched bars that survive the filter.
CompleteMerge(cs, nd) ==
    IF cs = <<>> THEN nd ELSE cs \o BarsAfter(nd, LastDate(cs))

\* C10: the cache entry of a key changes only by the single setItem of a call
\* whose fetch and merge have completed, and then to the complete merge; a
\* call writes at most once; abandoning calls changes no entry.
C10_NoPartialMerge ==
    [][/\ \A k \in Keys : store'[k] # store[k] =>
            \E c \in Calls :
                /\ key[c] = k
                /\ pc[c] = "setItem" /\ pc'[c] = "done"
                /\ Len(fetches[c]) >= 1
                /\ store'[k] = CompleteMerge(cached[c], newData[c])
                /\ result'[c] = store'[k]
       /\ \A c \in Calls : Len(writes'[c]) <= 1
       /\ (\E c \in Calls : pc'[c] = "abandoned" /\ pc[c] # "abandoned")
            => store' = store]_vars

\* A call was abandoned with its merge computed and its setItem pending; the
\* entry holds the two-bar merge another call stored.
C10_Witness ==
    \E c, d \in Calls :
        /\ pc[c] = "abandoned" /\ Len(finalData[c]) > Len(cached[c]) + 1
        /\ key[d] = key[c]
        /\ pc[d] = "done" /\ Len(writes[d]) = 1
        /\ Len(writes[d][1]) >= Len(cached[d]) + 2
        /\ store[key[d]] = writes[d][1]

\* No other call on the key of c has run or runs since c was invoked.
Isolated(c) ==
    \A d \in Calls \ {c} :
        key[d] = key[c] => (pc[d] = "idle" \/ d \in before[c])

\* C11: a syncData call reads and writes only the cache entry of its own
\* key: a step of a call changes no other entry, what it reads is its own
\* entry, and while calls on other keys interleave with it the entry it read
\* stays as read until its own write (as if the calls ran one after another).
C11_KeysIndependent ==
    [][\A c \in Calls :
          /\ pc'[c] # pc[c] =>
                /\ \A k \in Keys \ {key'[c]} : store'[k] = store[k]
                /\ (pc[c] = "getItem" /\ pc'[c] = "fetch")
                        => cached'[c] = store[key[c]]
          /\ (Isolated(c) /\ InRegion(c)) => store[key[c]] = cached[c]
          /\ (Isolated(c) /\ pc[c] = "setItem" /\ pc'[c] = "done")
                => /\ IsPrefix(store[key[c]], store'[key[c]])
                   /\ store'[key[c]] = result'[c]]_vars

\* Two calls on different keys overlapped in time and both stored a merge.
C11_Witness ==
    \E c, d \in Calls :
        /\ key[c] # key[d]
        /\ NormalDone(c) /\ NormalDone(d)
        /\ c \notin before[d] /\ d \notin before[c]
        /\ Len(writes[c]) = 1 /\ Len(writes[d]) = 1
        /\ store[key[c]] = result[c] /\ store[key[d]] = result[d]
        /\ Len(result[c]) > Len(cached[c]) /\ Len(cached[c]) > 0

\* C12: every jsonp request eventually settles, so every load App started
\* eventually finishes (and has cleared isLoading).
C12_EverythingSettles ==
    \A l \in Loads :
        /\ (net.jState[l] = "pending") ~> Settled(l)
        /\ (net.lState[l] = "awaiting") ~> (net.lState[l] = "finished")

\* C13: every element of the array calculateHDY returns lies in [0, 100].
C13_HDYInRange ==
    ind.call.fn = "calculateHDY" =>
        \A i \in 1..Len(ind.out) :
            Ge(ind.out[i], Num(0)) /\ Le(ind.out[i], Num(100))

\* The mean of s[field] over the indices lo..hi (from 0), summed upwards.
RECURSIVE RefSum(_, _, _, _)
RefSum(s, field, lo, hi) ==
    IF lo > hi THEN Num(0)
    ELSE Add(Field(At(s, lo), field), RefSum(s, field, lo + 1, hi))

RefMA(w, s, field, i) ==
    IF i < w - 1 THEN Null
    ELSE <<Round(Div(RefSum(s, field, i - w + 1, i), Num(w)), 4)>>

\* C14: calculateMA(w, s, field) has the length of s, is null at the
\* indices i < w - 1 and elsewhere the mean of field over i-w+1..i rounded to
\* four decimals; with w = 1 it is the field itself, rounded.
C14_MAIsReference ==
    ind.call.fn = "calculateMA" =>
        LET w == ind.call.dayCount
            f == ind.call.field
        IN  /\ Len(ind.out) = Len(ind.data)
            /\ \A i \in 0..(Len(ind.data) - 1) :
                   /\ At(ind.out, i) = RefMA(w, ind.data, f, i)
                   /\ w = 1 => At(ind.out, i) = <<Round(Field(At(ind.data, i), f), 4)>>

\* A window of three over three bars whose mean 1/96 is rounded: two nulls,
\* then 0.0104.
C14_Witness ==
    /\ ind.call.fn = "calculateMA"
    /\ ind.call.dayCount = 3
    /\ Len(ind.data) = 3
    /\ ind.out = <<Null, Null, <<<<13, 1250>>>>>>

Returned == strat.pc = "returned"
TheResult == strat.ret[1]

\* Some index >= 100 has a valid numeric close and an available 100-period
\* moving average.
StartExists ==
    \E i \in 100..(Len(strat.data) - 1) :
        ~IsNaN(At(strat.data, i).close) /\ At(strat.ma100, i) # Null

\* C15: runStrategy returns the neutral result for every series shorter than
\* 100 bars and every series in which no index >= 100 has both a valid close
\* and an available 100-period moving average.
C15_NeutralWithoutStart ==
    (Returned /\ (Len(strat.data) < 100 \/ ~StartExists)) =>
        /\ TheResult.trades = <<>>
        /\ TheResult.capitalCurve = <<>>
        /\ TheResult.benchmarkCurve = <<>>
        /\ TheResult.finalNetValue = Num(1)
        /\ TheResult.returnRate = "0.00"
        /\ TheResult.benchmarkReturn = "0.00"
        /\ TheResult.winRate = "0"
        /\ TheResult.tradeCount = 0

\* A series longer than 100 bars whose closes from index 100 on are all NaN
\* got the neutral result.
C15_Witness ==
    /\ Returned
    /\ Len(strat.data) > 101
    /\ ~StartExists
    /\ TheResult.returnRate = "0.00"
    /\ TheResult.capitalCurve = <<>>

\* The simulator's state: FLAT at first and after a sell, LONG after a buy.
Position(log) ==
    IF Len(log) > 0 /\ log[Len(log)].type = "buy" THEN "LONG" ELSE "FLAT"

Appended(type) ==
    /\ Len(strat'.trades) = Len(strat.trades) + 1
    /\ strat'.trades[Len(strat'.trades)].type = type

\* C16: in an iteration of the loop a buy is appended only on a BUY signal
\* while FLAT, a sell only on a SELL signal while LONG, and every other
\* combination of signal and state leaves cash, holdings, state and trade log
\* as they were.
C16_TradesOnlyOnSignal ==
    [][(strat.pc = "loop" /\ strat'.i = strat.i + 1) =>
          LET signal == SignalAt(strat.i)
              state == Position(strat.trades)
          IN  /\ Appended("buy") => (signal = "buy" /\ state = "FLAT")
              /\ Appended("sell") => (signal = "sell" /\ state = "LONG")
              /\ ~(\/ signal = "buy" /\ state = "FLAT"
                   \/ signal = "sell" /\ state = "LONG")
                 => UNCHANGED <<strat.cash, strat.holdings, strat.trades>>]_vars

\* The averages of the volume cross upwards resp. downwards at index i.
CrossUp(i) ==
    /\ Le(At(strat.ma10, i - 1)[1], At(strat.ma100, i - 1)[1])
    /\ Gt(At(strat.ma10, i)[1], At(strat.ma100, i)[1])

CrossDown(i) ==
    /\ Ge(At(strat.ma10, i - 1)[1], At(strat.ma100, i - 1)[1])
    /\ Lt(At(strat.ma10, i)[1], At(strat.ma100, i)[1])

\* A series of SeriesLength bars with strictly increasing close whose volume
\* averages cross up at index 102 only and down at index 108 only.
OneRoundTrip ==
    /\ Len(strat.data) = SeriesLength
    /\ \A i \in 1..(Len(strat.data) - 1) :
           Lt(At(strat.data, i - 1).close, At(strat.data, i).close)
    /\ \A i \in 100..(Len(strat.data) - 1) :
           /\ CrossUp(i) <=> i = 102
           /\ CrossDown(i) <=> i = 108

\* C17: for such a series runStrategy returns exactly two trades, a buy at
\* index 102 then a sell at index 108, tradeCount 2, finalNetValue
\* close[108]/close[102] rounded to four decimals and benchmarkReturn
\* (close[last]/close[startIndex] - 1) * 100.
C17_RoundTrip ==
    (Returned /\ OneRoundTrip) =>
        LET close(i) == At(strat.data, i).close
            last == Len(strat.data) - 1
        IN  /\ Len(TheResult.trades) = 2
            /\ TheResult.trades[1] =
                   [date |-> At(strat.data, 102).date, type |-> "buy", price |-> close(102)]
            /\ TheResult.trades[2] =
                   [date |-> At(strat.data, 108).date, type |-> "sell", price |-> close(108)]
            /\ TheResult.tradeCount = 2
            /\ TheResult.finalNetValue = Round(Div(close(108), close(102)), 4)
            /\ TheResult.benchmarkReturn =
                   Str(ToFixed(Mul(Sub(Div(close(last), close(strat.startIndex)), Num(1)),
                                   Num(100)), 2))

C17_Witness ==
    /\ Returned
    /\ OneRoundTrip
    /\ TheResult.tradeCount = 2
    /\ Gt(TheResult.finalNetValue, Num(1))

\* C18: when runStrategy finds a start index, both curves have the length of
\* the input, entry i carries the date of bar i, and every entry before
\* startIndex has the value 1.
C18_CurvesAligned ==
    (Returned /\ strat.startIndex < Len(strat.data)) =>
        /\ Len(TheResult.capitalCurve) = Len(strat.data)
        /\ Len(TheResult.benchmarkCurve) = Len(strat.data)
        /\ \A i \in 0..(Len(strat.data) - 1) :
               /\ At(TheResult.capitalCurve, i).date = At(strat.data, i).date
               /\ At(TheResult.benchmarkCurve, i).date = At(strat.data, i).date
               /\ i < strat.startIndex =>
                      /\ At(TheResult.capitalCurve, i).value = Num(1)
                      /\ At(TheResult.benchmarkCurve, i).value = Num(1)

\* A start index beyond 100 (the close at 100 is NaN) and a result with
\* curves.
C18_Witness ==
    /\ Returned
    /\ strat.startIndex > 100
    /\ strat.startIndex < Len(strat.data)
    /\ Len(TheResult.capitalCurve) = Len(strat.data)

\* C19: finalNetValue is the value of the last capitalCurve entry when the
\* curve is not empty (1 when it is), returnRate is (finalNetValue - 1) * 100
\* to two decimals and benchmarkReturn is (last benchmarkCurve value - 1) * 100
\* to two decimals, whatever the input.
C19_FinalValues ==
    Returned =>
        LET capital == TheResult.capitalCurve
            benchmark == TheResult.benchmarkCurve
            percent(x) == Str(ToFixed(Mul(Sub(x, Num(1)), Num(100)), 2))
        IN  /\ TheResult.finalNetValue =
                   IF Len(capital) > 0 THEN capital[Len(capital)].value ELSE Num(1)
            /\ TheResult.returnRate = percent(TheResult.finalNetValue)
            /\ TheResult.benchmarkReturn =
                   IF Len(benchmark) > 0
                   THEN percent(benchmark[Len(benchmark)].value)
                   ELSE "0.00"

\* C20: winRate is, as a percentage without decimals, the number of sell
\* trades priced strictly above the trade just before them in the log over
\* the number of sell trades, "0" when the log has no sell; tradeCount is the
\* length of the log.
C20_WinRate ==
    Returned =>
        LET log == TheResult.trades
            sells == {k \in 1..Len(log) : log[k].type = "sell"}
            wins == {k \in sells : k > 1 /\ Gt(log[k].price, log[k - 1].price)}
        IN  /\ TheResult.winRate =
                   IF sells = {} THEN "0"
                   ELSE Str(ToFixed(Div(Num(100 * Cardinality(wins)),
                                        Num(Cardinality(sells))), 0))
            /\ TheResult.tradeCount = Len(log)

\* Two round trips, one won and one lost: "50".
C20_Witness ==
    /\ Returned
    /\ TheResult.tradeCount = 4
    /\ TheResult.winRate = "50"

\* C21: runStrategy never fails: for every series, the empty one, those of
\* at most 100 bars and those with NaN closes included, it terminates and
\* returns a result without throwing, and the result is the neutral one
\* whenever the series is too short or has no index to start at.
C21_NeverFails ==
    /\ <>Returned
    /\ [](strat.pc # "thrown")
    /\ [](Returned => strat.ret # <<>>)
    /\ []((Returned /\ (Len(strat.data) <= 100 \/ ~StartExists)) =>
              TheResult = Neutral)

\* A series with a NaN close after a buy got a result with that trade.
C21_Witness ==
    /\ Returned
    /\ \E i \in 0..(Len(strat.data) - 1) :
           i > strat.startIndex /\ IsNaN(At(strat.data, i).close)
    /\ TheResult.tradeCount > 0
    /\ TheResult.returnRate = "0.00"

\* Every close of the series is a number >= 0.
NonNegativeCloses ==
    \A k \in 1..Len(strat.data) : Ge(strat.data[k].close, Num(0))

\* C22: for a series with non-negative closes (0 included) the trades of the
\* log alternate: the first is a buy, no two consecutive trades have the same
\* type, so every sell has a buy just before it.
C22_TradesAlternate ==
    NonNegativeCloses =>
        /\ Len(strat.trades) > 0 => strat.trades[1].type = "buy"
        /\ \A k \in 2..Len(strat.trades) :
               strat.trades[k].type # strat.trades[k - 1].type

\* cash + holdings * close for the close of index i.
TotalAsset(s, i) == Add(s.cash, Mul(s.holdings, At(strat.data, i).close))

\* The capital curve's value at the index of the last trade of the log.
EntryValue(s) ==
    LET entry == s.trades[Len(s.trades)]
        k == CHOOSE k \in 1..Len(s.capitalCurve) : s.capitalCurve[k].date = entry.date
    IN  s.capitalCurve[k].value

\* C23: after every processed index cash or holdings is zero; a trade at
\* index i leaves cash + holdings * close_i as it was; the capital curve
\* keeps its value from one index to the next while FLAT, and while LONG it
\* is the net value at the entry times close_i / close_entry.
C23_ValueConserved ==
    [][(strat.pc = "loop" /\ strat'.i = strat.i + 1) =>
          LET i == strat.i
              traded == Len(strat'.trades) > Len(strat.trades)
              value == strat'.capitalCurve[Len(strat'.capitalCurve)].value
          IN  /\ strat'.cash = Num(0) \/ strat'.holdings = Num(0)
              /\ traded => TotalAsset(strat', i) = TotalAsset(strat, i)
              /\ (~traded /\ Position(strat'.trades) = "FLAT") =>
                     value = strat.capitalCurve[Len(strat.capitalCurve)].value
              /\ (~traded /\ Position(strat'.trades) = "LONG") =>
                     value = Round(Div(Mul(EntryValue(strat), At(strat.data, i).close),
                                       strat.trades[Len(strat.trades)].price), 4)]_vars

\* The four averages read at index i are available.
Available(i) ==
    /\ At(strat.ma10, i - 1) # Null
    /\ At(strat.ma100, i - 1) # Null
    /\ At(strat.ma10, i) # Null
    /\ At(strat.ma100, i) # Null

\* C24: at each index i >= startIndex the iteration acts on at most one
\* signal: it buys only on prevShort <= prevLong and currShort > currLong
\* and always then when it holds nothing, it sells only on
\* prevShort >= prevLong and currShort < currLong and always then when it
\* holds something, the two never come together, and nothing is traded when
\* one of the four averages is unavailable.
C24_OneSignal ==
    [][(strat.pc = "loop" /\ strat'.i = strat.i + 1) =>
          LET i == strat.i
              buy == Available(i) /\ CrossUp(i)
              sell == Available(i) /\ CrossDown(i)
          IN  /\ i >= strat.startIndex
              /\ ~(buy /\ sell)
              /\ Appended("buy") <=> (buy /\ StrictEq(strat.holdings, Num(0)))
              /\ Appended("sell") <=> (sell /\ Gt(strat.holdings, Num(0)))
              /\ ~Available(i) => strat'.trades = strat.trades]_vars

\* A buy on a crossing upwards from equal averages, then a sell on a crossing
\* downwards.
C24_Witness ==
    /\ strat.pc = "loop"
    /\ Len(strat.trades) = 2
    /\ strat.trades[1].type = "buy"
    /\ strat.trades[2].type = "sell"
    /\ \E i \in strat.startIndex..(strat.i - 1) :
           /\ At(strat.data, i).date = strat.trades[1].date
           /\ At(strat.ma10, i - 1) = At(strat.ma100, i - 1)
           /\ CrossUp(i)

\* The highest high and the lowest low over the indices i-33..i, a missing
\* value taken as 0.
RefMaxHigh(s, i) ==
    LET highs == {OrZero(At(s, j).high) : j \in (i - 33)..i}
    IN  CHOOSE m \in highs : \A h \in highs : Ge(m, h)

RefMinLow(s, i) ==
    LET lows == {OrZero(At(s, j).low) : j \in (i - 33)..i}
    IN  CHOOSE m \in lows : \A l \in lows : Le(m, l)

RefRsv(s, i) ==
    IF RefMaxHigh(s, i) = RefMinLow(s, i) THEN Num(50)
    ELSE Mul(Div(Sub(At(s, i).close, RefMinLow(s, i)),
                 Sub(RefMaxHigh(s, i), RefMinLow(s, i))), Num(100))

RECURSIVE RefEma(_, _)
RefEma(s, i) ==
    IF i < 34 THEN Num(50)
    ELSE Div(Add(Mul(Num(2), RefRsv(s, i)), Mul(Num(2), RefEma(s, i - 1))), Num(4))

\* C25: calculateHDY returns a sequence of the length of its input whose
\* entries 0..33 are 50 and whose entry i >= 34 is ema_i rounded to two
\* decimals, with ema_i = (2 * rsv_i + 2 * ema_(i-1)) / 4, ema_33 = 50, and
\* rsv_i = 50 for a flat range, (close_i - minLow) / (maxHigh - minLow) * 100
\* otherwise.
C25_HDYFormula ==
    ind.call.fn = "calculateHDY" =>
        /\ Len(ind.out) = Len(ind.data)
        /\ \A i \in 0..(Len(ind.data) - 1) :
               At(ind.out, i) = IF i < 34 THEN Num(50)
                                ELSE Round(RefEma(ind.data, i), 2)

\* A series of 36 bars with a range that is not flat at 34 and is flat at 35.
C25_Witness ==
    /\ ind.call.fn = "calculateHDY"
    /\ Len(ind.data) = 36
    /\ RefMaxHigh(ind.data, 34) # RefMinLow(ind.data, 34)
    /\ RefMaxHigh(ind.data, 35) = RefMinLow(ind.data, 35)
    /\ At(ind.out, 34) # Num(50)
    /\ At(ind.out, 35) # At(ind.out, 34)

\* Index i has a valid numeric close and an available 100-period average.
Startable(i) == ~IsNaN(At(strat.data, i).close) /\ At(strat.ma100, i) # Null

\* C26: startIndex is the smallest index >= 100 with a valid numeric close
\* and an available 100-period volume average, and the benchmark curve at
\* i >= startIndex is close_i over the close at startIndex, rounded to four
\* decimals, hence 1 at startIndex.
C26_StartAndBenchmark ==
    (strat.pc \in {"loop", "returned"} /\ strat.startIndex < Len(strat.data)) =>
        LET initialPrice == At(strat.data, strat.startIndex).close
        IN  /\ strat.startIndex >= 100
            /\ Startable(strat.startIndex)
            /\ \A j \in 100..(strat.startIndex - 1) : ~Startable(j)
            /\ \A i \in strat.startIndex..(Len(strat.benchmarkCurve) - 1) :
                   At(strat.benchmarkCurve, i).value =
                       Round(Div(At(strat.data, i).close, initialPrice), 4)
            /\ Len(strat.benchmarkCurve) > strat.startIndex =>
                   At(strat.benchmarkCurve, strat.startIndex).value = Num(1)

\* The loads the effect has started, and the one started last (for the
\* current selection): loads start in the order of their numbers.
Started == {l \in Loads : net.lState[l] # "idle"}
Latest == CHOOSE l \in Started : \A m \in Started : m <= l

\* C27: once every load the effect started has completed, the data in App
\* state is the result of the load started last, for the current selection.
C27_LatestLoadWins ==
    (Started # {} /\ \A l \in Started : net.lState[l] = "finished") =>
        net.appData = Latest

\* C28: isLoading is true whenever a load started by the effect is still in
\* flight.
C28_LoadingWhileInFlight ==
    (\E l \in Loads : net.lState[l] = "awaiting") => net.isLoading

\* C29: two jsonp requests outstanding at the same time have distinct
\* callback names, and the closure of every outstanding request whose script
\* is still to run stays registered under its name.
C29_DistinctCallbackNames ==
    \A r \in Loads :
        net.jState[r] = "pending" =>
            /\ \A q \in Loads \ {r} :
                   net.jState[q] = "pending" => net.jName[q] # net.jName[r]
            /\ net.scriptState[r] = "loading" => net.window[net.jName[r]] = r

\* The volume of the two markets together on date d, as a bar carries it.
CombinedVolume(d) == Round(Div(Add(ShAmount(d), SzAmount(d)), Num(AmountScale)), 4)

\* C30: every bar persisted under the volume key carries the combined
\* volume of the two markets for its date, never that of Shanghai alone.
C30_CombinedVolumePersisted ==
    \A k \in 1..Len(vol.store) :
        vol.store[k].volume = CombinedVolume(vol.store[k].date)

\* What fetchFn, called with no start date at the moment of the fetch f,
\* settles with: the whole remote history, or [] if the transport fails as
\* it did for f.
FullHistoryAt(f) ==
    {Range(1, f.at)} \cup (IF f.ok THEN {} ELSE {<<>>})

\* C31: against a source whose history only grows by appended later bars,
\* the sequence a syncData call returned is the sequence a full-history fetch
\* (fetchFn with no start date) returns at the moment of the call's fetch,
\* whatever calls were made on the key before.
C31_CachedRefinesUncached ==
    \A c \in Calls :
        (pc[c] = "done" /\ sourceAscending)
            => result[c] \in FullHistoryAt(LastFetch(c))
====
